---- MODULE Spec2Model ----
(***************************************************************************)
(* The Council: multi-provider orchestration engine.                       *)
(*                                                                         *)
(* State: the model list, the settings, the per-model threads kept by      *)
(* useChatState, the Studio gallery and generating flags, and the adapter  *)
(* calls that are in flight.  Texts are sequences of one-character strings *)
(* so that template substitution is computed, not assumed.                 *)
(***************************************************************************)
EXTENDS Integers, Sequences, FiniteSets, TLC

\* ------------------------------------------------------------------ bounds
MaxActions == 2
MaxEdits == 1
MaxResults == 2
MaxInFlight == 4

\* ------------------------------------------------------------ basic values
NoError == "undefined"
Undefined == <<"#undefined">>
PLACEHOLDER == "{{OTHER_RESPONSES}}"
NoAttachment == [present |-> FALSE, mimeType |-> "", name |-> <<>>, data |-> <<>>]
NoUsage == [present |-> FALSE, inputTokens |-> 0, outputTokens |-> 0, totalTokens |-> 0]
Absent == -1

TextFile == [present |-> TRUE, mimeType |-> "text/plain", name |-> <<"f">>, data |-> <<"d">>]

ImageFile == [present |-> TRUE, mimeType |-> "image/png", name |-> <<"r">>, data |-> <<"i">>]

\* what the user can type and attach; what a vendor can answer
UserInputs == {[text |-> <<"q">>, attachment |-> TextFile]}
Prompts == {<<"p">>}
ReferenceSets == {<<>>, <<ImageFile>>}

DEFAULT_SYSTEM_PROMPT == <<"s">>
DEFAULT_COMPARE_PROMPT == <<"c", PLACEHOLDER>>
Templates == {DEFAULT_COMPARE_PROMPT, <<PLACEHOLDER, "c">>}

Providers == {"google", "anthropic", "openai", "xai"}

Model(id, name, provider, caps, key) ==
    [id |-> id, name |-> name, provider |-> provider, enabled |-> TRUE,
     capabilities |-> caps, apiKey |-> key, baseUrl |-> ""]

INITIAL_MODELS ==
    << Model("gpt", <<"G">>, "openai", {"text"}, ""),
       Model("claude", <<"C">>, "anthropic", {"text"}, ""),
       Model("pix", <<"P">>, "xai", {"image"}, "") >>

NewModels ==
    { Model("gem", <<"M">>, "google", {"text"}, "MK") }

ModelIds == {INITIAL_MODELS[i].id : i \in 1..Len(INITIAL_MODELS)} \cup {m.id : m \in NewModels}

INITIAL_SETTINGS ==
    [systemPrompt |-> DEFAULT_SYSTEM_PROMPT,
     comparePromptTemplate |-> DEFAULT_COMPARE_PROMPT,
     apiKeys |-> [p \in Providers |-> "K"],
     apiEndpoints |-> [p \in Providers |-> IF p = "google" THEN "" ELSE "U"]]

NoProbe == [fn |-> "none", done |-> FALSE]

\* --------------------------------------------------------------- variables
VARIABLES
    models,        \* useChatState: ModelConfig[]
    settings,      \* useChatState: AppSettings
    studioSettings,\* useChatState: StudioSettings (imageCount, videoMode)
    threads,       \* useChatState: Record<string, Thread>
    gallery,       \* useChatState: ImageGeneration[]
    isGenerating,  \* StudioLayout: Record<string, boolean>
    calls,         \* adapter calls whose promise has not settled yet
    nActions,      \* user actions taken (Send, Global compare, Generate)
    nEdits,        \* settings / model-list edits taken
    probe          \* a pure function under test: its input and, once applied, its output

vars == <<models, settings, studioSettings, threads, gallery, isGenerating, calls, nActions, nEdits, probe>>

\* ------------------------------------------------------- sequence helpers
RemoveAt(s, i) == SubSeq(s, 1, i - 1) \o SubSeq(s, i + 1, Len(s))

\* String.prototype.trim on a text made of one-character strings
RECURSIVE Trim(_)
Trim(t) ==
    IF t = <<>> THEN <<>>
    ELSE IF Head(t) = " " THEN Trim(Tail(t))
    ELSE IF t[Len(t)] = " " THEN Trim(SubSeq(t, 1, Len(t) - 1))
    ELSE t

\* --------------------------------------------------------- useChatState
EmptyThread(modelId) ==
    [modelId |-> modelId, messages |-> <<>>, isTyping |-> FALSE,
     error |-> NoError, totalTokens |-> 0]

ThreadOf(th, modelId) ==
    IF modelId \in DOMAIN th THEN th[modelId] ELSE EmptyThread(modelId)

\* { ...t, ...patch }
Spread(t, patch) ==
    [k \in DOMAIN t |-> IF k \in DOMAIN patch THEN patch[k] ELSE t[k]]

\* variant: the patch lands on every thread, not only the addressed one
updateThreadAll(th, modelId, patch) ==
    [k \in DOMAIN th \cup {modelId} |-> Spread(ThreadOf(th, k), patch)]

updateThread(th, modelId, patch) ==
    [k \in DOMAIN th \cup {modelId} |->
        IF k = modelId THEN Spread(ThreadOf(th, modelId), patch) ELSE th[k]]

NewMessage(text, role, attach, usage) ==
    [role |-> role, text |-> text, attachment |-> attach,
     usage |-> IF role = "model" THEN usage ELSE NoUsage]

\* variant: the message is appended but its usage is not accumulated
addMessageNoAccumulate(th, modelId, text, role, attach, usage) ==
    LET t == ThreadOf(th, modelId) IN
    updateThread(th, modelId,
        [messages |-> Append(t.messages, NewMessage(text, role, attach, usage))])

addMessage(th, modelId, text, role, attach, usage) ==
    LET t == ThreadOf(th, modelId) IN
    updateThread(th, modelId,
        [messages |-> Append(t.messages, NewMessage(text, role, attach, usage)),
         totalTokens |-> t.totalTokens + (IF usage.present THEN usage.totalTokens ELSE 0)])

\* variant: the sync rebuilds the thread table from the model list
SyncThreadsFresh(th, ms) ==
    [k \in {ms[i].id : i \in 1..Len(ms)} |-> EmptyThread(k)]

\* "Sync threads when models change" effect
RECURSIVE SyncThreads(_, _)
SyncThreads(th, ms) ==
    IF ms = <<>> THEN th
    ELSE LET m == Head(ms) IN
         SyncThreads(IF m.id \in DOMAIN th
                        THEN th
                        ELSE [k \in DOMAIN th \cup {m.id} |->
                                 IF k = m.id THEN EmptyThread(m.id) ELSE th[k]],
                     Tail(ms))

\* -------------------------------------------------------- chat adapters
\* A vendor's answer to one HTTP request.
\*   kind: "network" (fetch rejected), "http" (non-2xx), "ok" (2xx)
\*   body: for "http": "json_msg" | "json_nomsg" | "raw"
\*   content: the text, or <<>> when the 2xx body has no text
\*   usage: [present, prompt_tokens, completion_tokens, total_tokens], a field = Absent when missing
NoVendorUsage == [present |-> FALSE, prompt_tokens |-> Absent, completion_tokens |-> Absent, total_tokens |-> Absent]

VendorUsage(p, c, t) == [present |-> TRUE, prompt_tokens |-> p, completion_tokens |-> c, total_tokens |-> t]

Response(kind, body, content, usage) ==
    [kind |-> kind, body |-> body, content |-> content, usage |-> usage]

\* a ?? 0
OrZero(v) == IF v = Absent THEN 0 ELSE v

\* openai.ts: "Extract token usage directly from API response"
OpenAIUsage(u) ==
    IF u.present
    THEN [present |-> TRUE,
          inputTokens |-> OrZero(u.prompt_tokens),
          outputTokens |-> OrZero(u.completion_tokens),
          totalTokens |-> OrZero(u.total_tokens)]
    ELSE NoUsage

\* What an adapter's promise settles to: thrown error or returned value.
\* shape "object" is a GenerateResponse {text, usage}; shape "string" is a bare string.
Thrown(msg) == [threw |-> TRUE, message |-> msg, shape |-> "none", text |-> <<>>, usage |-> NoUsage]
ReturnedObject(text, usage) == [threw |-> FALSE, message |-> "", shape |-> "object", text |-> text, usage |-> usage]
ReturnedString(text) == [threw |-> FALSE, message |-> "", shape |-> "string", text |-> text, usage |-> NoUsage]

OpenAIGenerate(r) ==
    IF r.kind = "network" THEN Thrown("openai: network error")
    ELSE IF r.kind = "http" THEN
        IF r.body = "json_msg" THEN Thrown("vendor error.message")
        ELSE IF r.body = "json_nomsg" THEN Thrown("API Error (status)")
        ELSE Thrown("API Error: raw body")
    ELSE IF r.content = <<>> THEN ReturnedObject(<<"No response content received.">>, NoUsage)
    ELSE ReturnedObject(r.content, OpenAIUsage(r.usage))

AnthropicGenerate(r) ==
    IF r.kind = "network" THEN Thrown("anthropic: network error")
    ELSE IF r.kind = "http" THEN Thrown("Anthropic Error (status): raw body")
    ELSE IF r.content = <<>> THEN ReturnedString(<<"No text response received from Claude.">>)
    ELSE ReturnedString(r.content)

GoogleGenerate(r) ==
    IF r.kind = "network" THEN Thrown("google: sdk network error")
    ELSE IF r.kind = "http" THEN Thrown("google: sdk api error")
    ELSE IF r.content = <<>> THEN Thrown("No text returned from Gemini")
    ELSE ReturnedString(r.content)

\* factory.ts getProvider
getProvider(providerName) ==
    IF providerName = "google" THEN "google"
    ELSE IF providerName = "anthropic" THEN "anthropic"
    ELSE "openai"

generateResponse(adapter, r) ==
    IF adapter = "google" THEN GoogleGenerate(r)
    ELSE IF adapter = "anthropic" THEN AnthropicGenerate(r)
    ELSE OpenAIGenerate(r)

\* the pre-flight part of generateResponse: the error thrown before any fetch, or ""
\* variant: the adapters go to the network without looking at the key
PreflightNoKeyCheck(adapter, apiKey, attach) ==
    IF adapter = "google" /\ attach.present /\ attach.mimeType = "application/octet-stream"
    THEN "Gemini does not support MIME type"
    ELSE ""

\* !apiKey; the Google adapter also rejects a key that trims to nothing (" ")
KeyMissing(adapter, apiKey) == apiKey = "" \/ (adapter = "google" /\ apiKey = " ")

Preflight(adapter, apiKey, attach) ==
    IF KeyMissing(adapter, apiKey) THEN
        IF adapter = "google" THEN "Gemini API Key is missing."
        ELSE IF adapter = "anthropic" THEN "Anthropic API Key missing."
        ELSE "API Key missing."
    ELSE IF adapter = "google" /\ attach.present /\ attach.mimeType = "application/octet-stream"
         THEN "Gemini does not support MIME type"
    ELSE ""

\* ------------------------------------------------------------ App.tsx
IsActiveText(m) == m.enabled /\ "text" \in m.capabilities
activeTextModels == SelectSeq(models, IsActiveText)

FindModel(ms, modelId) ==
    IF \E i \in 1..Len(ms) : ms[i].id = modelId
    THEN ms[CHOOSE i \in 1..Len(ms) : ms[i].id = modelId /\ \A j \in 1..(i - 1) : ms[j].id # modelId]
    ELSE [id |-> ""]

\* a || b on strings
OrElse(a, b) == IF a # "" THEN a ELSE b

\* "Resolve Config (Model Override > Global Settings)"
ResolveApiKey(model, st) == OrElse(model.apiKey, st.apiKeys[model.provider])
ResolveBaseUrl(model, st) ==
    IF model.baseUrl # "" THEN model.baseUrl
    ELSE IF model.provider \in {"openai", "anthropic", "xai"} THEN st.apiEndpoints[model.provider]
    ELSE ""

\* One adapter call whose promise is pending.  stage "rejected": generateResponse
\* threw before its first fetch and the rejection waits in the microtask queue;
\* stage "fetch": the HTTP request has been issued.
ChatCall(model, st, history, text, attach) ==
    LET adapter == getProvider(model.provider)
        apiKey == ResolveApiKey(model, st)
        pre == Preflight(adapter, apiKey, attach)
    IN [kind |-> "chat", model |-> model.id, adapter |-> adapter,
        stage |-> IF pre = "" THEN "fetch" ELSE "rejected", rejectMsg |-> pre,
        apiKey |-> apiKey, baseUrl |-> ResolveBaseUrl(model, st),
        history |-> history, newMessage |-> text, attachment |-> attach,
        systemInstruction |-> st.systemPrompt, imageCount |-> 0, refs |-> <<>>]

\* sendMessageToModel up to its await: the typing flag, then the adapter call.
\* closure is the threads value the handler was rendered with; th is the state
\* the queued updaters apply to.
SendDispatchThreads(th, modelId) ==
    updateThread(th, modelId, [isTyping |-> TRUE, error |-> NoError])

\* variant: the adapter is called twice for the one message
sendMessageToModelTwice(st, modelId, text, attach, closure) ==
    LET model == FindModel(models, modelId)
        call == ChatCall(model, settings, ThreadOf(closure, modelId).messages, text, attach)
    IN IF model.id = "" THEN [threads |-> st.threads, calls |-> st.calls]
       ELSE [threads |-> SendDispatchThreads(st.threads, modelId),
             calls |-> st.calls \o <<call, call>>]

\* variant: the history is read from the thread after the user message was added
sendMessageToModelFresh(st, modelId, text, attach, closure) ==
    LET model == FindModel(models, modelId) IN
    IF model.id = "" THEN [threads |-> st.threads, calls |-> st.calls]
    ELSE [threads |-> SendDispatchThreads(st.threads, modelId),
          calls |-> Append(st.calls,
                      ChatCall(model, settings, ThreadOf(st.threads, modelId).messages, text, attach))]

sendMessageToModel(st, modelId, text, attach, closure) ==
    LET model == FindModel(models, modelId) IN
    IF model.id = "" THEN [threads |-> st.threads, calls |-> st.calls]
    ELSE [threads |-> SendDispatchThreads(st.threads, modelId),
          calls |-> Append(st.calls,
                      ChatCall(model, settings, ThreadOf(closure, modelId).messages, text, attach))]

RECURSIVE SendLoop(_, _, _, _, _)
SendLoop(st, targets, txt, att, closure) ==
    IF targets = <<>> THEN st
    ELSE LET m == Head(targets)
             withUser == [threads |-> addMessage(st.threads, m.id, txt, "user", att, NoUsage),
                          calls |-> st.calls]
         IN SendLoop(sendMessageToModel(withUser, m.id, txt, att, closure), Tail(targets), txt, att, closure)

NoMicrotask == \A i \in 1..Len(calls) : calls[i].stage # "rejected"

handleSend(txt, att) ==
    /\ nActions < MaxActions
    /\ NoMicrotask
    /\ ~((Trim(txt) = <<>> /\ ~att.present) \/ Len(activeTextModels) = 0)
    /\ LET st == SendLoop([threads |-> threads, calls |-> calls], activeTextModels, txt, att, threads)
       IN /\ threads' = st.threads
          /\ calls' = st.calls
          /\ Len(st.calls) <= MaxInFlight
    /\ nActions' = nActions + 1
    /\ UNCHANGED <<models, settings, studioSettings, gallery, isGenerating, nEdits, probe>>

\* response.text / response.usage as the orchestrator reads them
ResponseText(out) == IF out.shape = "object" THEN out.text ELSE Undefined
ResponseUsage(out) == IF out.shape = "object" THEN out.usage ELSE NoUsage

\* variant: no finally block; typing is cleared on the success path only
SendSettleThreadsNoFinally(th, modelId, out) ==
    IF out.threw
    THEN updateThread(th, modelId, [error |-> OrElse(out.message, "Unknown error")])
    ELSE updateThread(addMessage(th, modelId, ResponseText(out), "model", NoAttachment, ResponseUsage(out)),
                      modelId, [isTyping |-> FALSE])

\* variant: the catch block swallows the error
SendSettleThreadsSwallow(th, modelId, out) ==
    LET body == IF out.threw THEN th
                ELSE addMessage(th, modelId, ResponseText(out), "model", NoAttachment, ResponseUsage(out))
    IN updateThread(body, modelId, [isTyping |-> FALSE])

\* variant: the catch block records a fixed text instead of err.message
SendSettleThreadsUnknown(th, modelId, out) ==
    LET body == IF out.threw
                THEN updateThread(th, modelId, [error |-> "Unknown error"])
                ELSE addMessage(th, modelId, ResponseText(out), "model", NoAttachment, ResponseUsage(out))
    IN updateThread(body, modelId, [isTyping |-> FALSE])

\* sendMessageToModel after its await: try tail, catch, finally
SendSettleThreads(th, modelId, out) ==
    LET body == IF out.threw
                THEN updateThread(th, modelId, [error |-> OrElse(out.message, "Unknown error")])
                ELSE addMessage(th, modelId, ResponseText(out), "model", NoAttachment, ResponseUsage(out))
    IN updateThread(body, modelId, [isTyping |-> FALSE])

FirstRejected(i) ==
    /\ calls[i].stage = "rejected"
    /\ \A j \in 1..(i - 1) : calls[j].stage # "rejected"

ChatResponses ==
    { Response("http", "json_msg", <<>>, NoVendorUsage),
      Response("ok", "", <<>>, NoVendorUsage),
      Response("ok", "", <<"a">>, VendorUsage(1, 1, 2)),
      Response("ok", "", <<"$", "$">>, NoVendorUsage) }

SettleChat(i, out) ==
    /\ threads' = SendSettleThreads(threads, calls[i].model, out)
    /\ calls' = RemoveAt(calls, i)
    /\ UNCHANGED <<models, settings, studioSettings, gallery, isGenerating, nActions, nEdits, probe>>

ChatRejected ==
    \E i \in 1..Len(calls) :
        /\ calls[i].kind = "chat"
        /\ FirstRejected(i)
        /\ SettleChat(i, Thrown(calls[i].rejectMsg))

ChatResponded ==
    \E i \in 1..Len(calls) :
        /\ calls[i].kind = "chat"
        /\ NoMicrotask
        /\ \E r \in ChatResponses : SettleChat(i, generateResponse(calls[i].adapter, r))

\* ---------------------------------------------------- Global compare
\* ${value} inside a template literal
Stringify(t) == IF t = Undefined THEN <<"undefined">> ELSE t

\* String.prototype.replace(pattern: string, replacement: string): the first
\* occurrence only, and $$, $&, $(backtick), $(quote) in the replacement are
\* substitution patterns.  BACKTICK and QUOTE stand for those two characters.
IndexOf(t, tok) ==
    IF \E i \in 1..Len(t) : t[i] = tok
    THEN CHOOSE i \in 1..Len(t) : t[i] = tok /\ \A j \in 1..(i - 1) : t[j] # tok
    ELSE 0

BACKTICK == "BACKTICK"
QUOTE == "QUOTE"

RECURSIVE ExpandReplacement(_, _, _, _)
ExpandReplacement(repl, matched, before, after) ==
    IF repl = <<>> THEN <<>>
    ELSE IF Head(repl) = "$" /\ Len(repl) >= 2 /\ repl[2] \in {"$", "&", BACKTICK, QUOTE}
    THEN (IF repl[2] = "$" THEN <<"$">>
          ELSE IF repl[2] = "&" THEN <<matched>>
          ELSE IF repl[2] = BACKTICK THEN before
          ELSE after)
         \o ExpandReplacement(SubSeq(repl, 3, Len(repl)), matched, before, after)
    ELSE <<Head(repl)>> \o ExpandReplacement(Tail(repl), matched, before, after)

JsReplace(t, pattern, repl) ==
    LET i == IndexOf(t, pattern) IN
    IF i = 0 THEN t
    ELSE LET before == SubSeq(t, 1, i - 1)
             after == SubSeq(t, i + 1, Len(t))
         IN before \o ExpandReplacement(repl, pattern, before, after) \o after

\* <model_response name="${m.name}">${last.text}</model_response>
ResponseBlock(name, text) ==
    <<"<model_response name=\"">> \o name \o <<"\">">> \o Stringify(text) \o <<"</model_response>">>

LastIsModel(th, modelId) ==
    LET msgs == ThreadOf(th, modelId).messages IN
    Len(msgs) > 0 /\ msgs[Len(msgs)].role = "model"

\* activeTextModels.filter(m => m.id !== target.id).map(...).filter(Boolean)
RECURSIVE OtherBlocks(_, _, _)
OtherBlocks(ms, targetId, th) ==
    IF ms = <<>> THEN <<>>
    ELSE LET m == Head(ms)
             rest == OtherBlocks(Tail(ms), targetId, th)
         IN IF m.id # targetId /\ LastIsModel(th, m.id)
            THEN LET msgs == ThreadOf(th, m.id).messages
                 IN <<ResponseBlock(m.name, msgs[Len(msgs)].text)>> \o rest
            ELSE rest

\* others.join("\n\n")
RECURSIVE Join(_, _)
Join(blocks, sep) ==
    IF blocks = <<>> THEN <<>>
    ELSE IF Len(blocks) = 1 THEN blocks[1]
    ELSE blocks[1] \o sep \o Join(Tail(blocks), sep)

ComparePrompt(template, others) ==
    JsReplace(template, PLACEHOLDER, Join(others, <<"\n\n">>))

\* variant: no early return when there is no other response to compare with
RECURSIVE CompareLoopNoSkip(_, _, _)
CompareLoopNoSkip(st, targets, closure) ==
    IF targets = <<>> THEN st
    ELSE LET target == Head(targets)
             others == OtherBlocks(activeTextModels, target.id, closure)
             prompt == ComparePrompt(settings.comparePromptTemplate, others)
             withUser == [threads |-> addMessage(st.threads, target.id, prompt, "user", NoAttachment, NoUsage),
                          calls |-> st.calls]
         IN CompareLoopNoSkip(sendMessageToModel(withUser, target.id, prompt, NoAttachment, closure),
                              Tail(targets), closure)

RECURSIVE CompareLoop(_, _, _)
CompareLoop(st, targets, closure) ==
    IF targets = <<>> THEN st
    ELSE LET target == Head(targets)
             others == OtherBlocks(activeTextModels, target.id, closure)
         IN IF Len(others) = 0 THEN CompareLoop(st, Tail(targets), closure)
            ELSE LET prompt == ComparePrompt(settings.comparePromptTemplate, others)
                     withUser == [threads |-> addMessage(st.threads, target.id, prompt, "user", NoAttachment, NoUsage),
                                  calls |-> st.calls]
                 IN CompareLoop(sendMessageToModel(withUser, target.id, prompt, NoAttachment, closure),
                                Tail(targets), closure)

handleGlobalCompare ==
    /\ nActions < MaxActions
    /\ NoMicrotask
    /\ LET st == IF Len(activeTextModels) < 2
                 THEN [threads |-> threads, calls |-> calls]
                 ELSE CompareLoop([threads |-> threads, calls |-> calls], activeTextModels, threads)
       IN /\ threads' = st.threads
          /\ calls' = st.calls
          /\ Len(st.calls) <= MaxInFlight
    /\ nActions' = nActions + 1
    /\ UNCHANGED <<models, settings, studioSettings, gallery, isGenerating, nEdits, probe>>

\* ------------------------------------------------------------ Studio
IsActiveImage(m) ==
    m.enabled /\ ("image" \in m.capabilities \/ "video" \in m.capabilities)
activeModels == SelectSeq(models, IsActiveImage)

ImageProviders == {"google", "openai", "xai", "openrouter"}

\* state.settings.apiKeys[model.provider]
StudioApiKey(model, st) ==
    IF model.provider \in DOMAIN st.apiKeys THEN st.apiKeys[model.provider] ELSE ""
StudioBaseUrl(model, st) ==
    IF model.provider \in DOMAIN st.apiEndpoints THEN st.apiEndpoints[model.provider] ELSE ""

\* what handleGenerate throws before calling the adapter, or ""
StudioSyncError(model, st) ==
    IF model.provider \notin ImageProviders THEN "Unknown image provider"
    ELSE IF StudioApiKey(model, st) = "" THEN "Missing API Key"
    ELSE ""

\* what generateImage throws before its first fetch, or ""
ImagePreflight(provider, refs) ==
    IF provider = "xai" /\ Len(refs) > 0
    THEN "Image input / variations are not currently supported by the xAI provider."
    ELSE ""

ImageCall(model, st, sst, prompt, refs) ==
    LET pre == ImagePreflight(model.provider, refs) IN
    [kind |-> "image", model |-> model.id, adapter |-> model.provider,
     stage |-> IF pre = "" THEN "fetch" ELSE "rejected", rejectMsg |-> pre,
     apiKey |-> StudioApiKey(model, st), baseUrl |-> StudioBaseUrl(model, st),
     history |-> <<>>, newMessage |-> prompt, attachment |-> NoAttachment,
     systemInstruction |-> <<>>, imageCount |-> sst.imageCount, refs |-> refs]

SetGenerating(g, modelId, v) ==
    [k \in DOMAIN g \cup {modelId} |-> IF k = modelId THEN v ELSE g[k]]

\* `Error: ${e.message}` appended as a model message
ErrorText(msg) == <<"Error: ", msg>>

\* referenceImages[0]
FirstRef(refs) == IF Len(refs) > 0 THEN refs[1] ELSE NoAttachment

\* one iteration of activeModels.forEach, up to the adapter call's await
GenerateOne(st, model, prompt, refs) ==
    IF studioSettings.videoMode /\ "video" \notin model.capabilities THEN st
    ELSE LET withUser == addMessage(st.threads, model.id, prompt, "user", FirstRef(refs), NoUsage)
             err == StudioSyncError(model, settings)
         IN IF err # ""
            THEN [st EXCEPT !.threads = addMessage(withUser, model.id, ErrorText(err), "model", NoAttachment, NoUsage),
                            !.isGenerating = SetGenerating(st.isGenerating, model.id, FALSE)]
            ELSE [st EXCEPT !.threads = withUser,
                            !.isGenerating = SetGenerating(st.isGenerating, model.id, TRUE),
                            !.calls = Append(st.calls, ImageCall(model, settings, studioSettings, prompt, refs))]

RECURSIVE GenerateLoop(_, _, _, _)
GenerateLoop(st, targets, prompt, refs) ==
    IF targets = <<>> THEN st
    ELSE GenerateLoop(GenerateOne(st, Head(targets), prompt, refs), Tail(targets), prompt, refs)

handleGenerate(prompt, refs) ==
    /\ nActions < MaxActions
    /\ NoMicrotask
    /\ ~(Trim(prompt) = <<>> \/ Len(activeModels) = 0)
    /\ LET st == GenerateLoop([threads |-> threads, calls |-> calls, isGenerating |-> isGenerating],
                              activeModels, prompt, refs)
       IN /\ threads' = st.threads
          /\ calls' = st.calls
          /\ Len(st.calls) <= MaxInFlight
          /\ isGenerating' = st.isGenerating
    /\ nActions' = nActions + 1
    /\ UNCHANGED <<models, settings, studioSettings, gallery, nEdits, probe>>

\* An image adapter's settled promise: thrown error, or the ImageResult list
\* (each result "data" for a data: URI, "remote" for an http URL).
ImageThrown(msg) == [threw |-> TRUE, message |-> msg, results |-> <<>>]
ImageReturned(results) == [threw |-> FALSE, message |-> "", results |-> results]

GeneratedAttachment(res) ==
    [present |-> TRUE, mimeType |-> "image/png", name |-> <<"generated.png">>,
     data |-> IF res = "data" THEN <<"b64">> ELSE <<>>]

\* results.forEach: gallery item, then the model message
RECURSIVE AddResults(_, _, _)
AddResults(st, call, results) ==
    IF results = <<>> THEN st
    ELSE AddResults(
            [threads |-> addMessage(st.threads, call.model, <<"Generated Image">>, "model",
                                    GeneratedAttachment(Head(results)), NoUsage),
             gallery |-> <<[modelId |-> call.model, prompt |-> call.newMessage, url |-> Head(results)]>>
                         \o st.gallery],
            call, Tail(results))

GenerateSettle(st, call, out) ==
    IF out.threw
    THEN [st EXCEPT !.threads = addMessage(st.threads, call.model, ErrorText(out.message), "model", NoAttachment, NoUsage)]
    ELSE AddResults(st, call, out.results)

RECURSIVE Repeat(_, _)
Repeat(x, n) == IF n = 0 THEN <<>> ELSE <<x>> \o Repeat(x, n - 1)

ImageResponses ==
    { ImageThrown("xAI Error status: body"), ImageThrown("Failed to fetch"), ImageReturned(<<"remote">>) }
    \cup { ImageReturned(Repeat("data", n)) : n \in 0..MaxResults }

SettleImage(i, out) ==
    /\ LET st == GenerateSettle([threads |-> threads, gallery |-> gallery], calls[i], out)
       IN /\ threads' = st.threads
          /\ gallery' = st.gallery
    /\ isGenerating' = SetGenerating(isGenerating, calls[i].model, FALSE)
    /\ calls' = RemoveAt(calls, i)
    /\ UNCHANGED <<models, settings, studioSettings, nActions, nEdits, probe>>

ImageRejected ==
    \E i \in 1..Len(calls) :
        /\ calls[i].kind = "image"
        /\ FirstRejected(i)
        /\ SettleImage(i, ImageThrown(calls[i].rejectMsg))

ImageResponded ==
    \E i \in 1..Len(calls) :
        /\ calls[i].kind = "image"
        /\ NoMicrotask
        /\ \E out \in ImageResponses : SettleImage(i, out)

\* ----------------------------------------------------- SettingsModal
setModels(ms) ==
    /\ models' = ms
    /\ threads' = SyncThreads(threads, ms)

ToggleSeq(ms, id) == [i \in 1..Len(ms) |-> IF ms[i].id = id THEN [ms[i] EXCEPT !.enabled = ~@] ELSE ms[i]]

RECURSIVE DeleteSeq(_, _)
DeleteSeq(ms, id) ==
    IF ms = <<>> THEN <<>>
    ELSE IF Head(ms).id = id THEN DeleteSeq(Tail(ms), id)
    ELSE <<Head(ms)>> \o DeleteSeq(Tail(ms), id)

Edit ==
    /\ nEdits < MaxEdits
    /\ NoMicrotask
    /\ nEdits' = nEdits + 1

handleToggleModel(id) ==
    /\ Edit
    /\ \E i \in 1..Len(models) : models[i].id = id
    /\ setModels(ToggleSeq(models, id))
    /\ UNCHANGED <<settings, studioSettings, gallery, isGenerating, calls, nActions, probe>>

handleDeleteModel(id) ==
    /\ Edit
    /\ \E i \in 1..Len(models) : models[i].id = id
    /\ setModels(DeleteSeq(models, id))
    /\ UNCHANGED <<settings, studioSettings, gallery, isGenerating, calls, nActions, probe>>

handleAddModel(m) ==
    /\ Edit
    /\ ~\E i \in 1..Len(models) : models[i].id = m.id
    /\ setModels(Append(models, m))
    /\ UNCHANGED <<settings, studioSettings, gallery, isGenerating, calls, nActions, probe>>

handleResetModels ==
    /\ Edit
    /\ setModels(INITIAL_MODELS)
    /\ UNCHANGED <<settings, studioSettings, gallery, isGenerating, calls, nActions, probe>>

\* variant: in-flight calls read the API key from the live settings
updateApiKeyLive(provider, value) ==
    /\ Edit
    /\ settings' = [settings EXCEPT !.apiKeys[provider] = value]
    /\ calls' = [i \in 1..Len(calls) |->
                    IF FindModel(models, calls[i].model).id # ""
                       /\ FindModel(models, calls[i].model).provider = provider
                    THEN [calls[i] EXCEPT !.apiKey = value] ELSE calls[i]]
    /\ UNCHANGED <<models, studioSettings, threads, gallery, isGenerating, nActions, probe>>

updateApiKey(provider, value) ==
    /\ Edit
    /\ settings' = [settings EXCEPT !.apiKeys[provider] = value]
    /\ UNCHANGED <<models, studioSettings, threads, gallery, isGenerating, calls, nActions, probe>>

updateComparePrompt(t) ==
    /\ Edit
    /\ settings' = [settings EXCEPT !.comparePromptTemplate = t]
    /\ UNCHANGED <<models, studioSettings, threads, gallery, isGenerating, calls, nActions, probe>>

updateStudioSettings(video) ==
    /\ Edit
    /\ studioSettings' = [studioSettings EXCEPT !.videoMode = video]
    /\ UNCHANGED <<models, settings, threads, gallery, isGenerating, calls, nActions, probe>>

Init ==
    /\ models = INITIAL_MODELS
    /\ settings = INITIAL_SETTINGS
    /\ studioSettings = [imageCount |-> 1, videoMode |-> FALSE]
    /\ threads = SyncThreads(<<>>, INITIAL_MODELS)
    /\ gallery = <<>>
    /\ isGenerating = [m \in {} |-> FALSE]
    /\ calls = <<>>
    /\ nActions = 0
    /\ nEdits = 0
    /\ probe = NoProbe

Next ==
    \/ \E inp \in UserInputs : handleSend(inp.text, inp.attachment)
    \/ handleGlobalCompare
    \/ \E prompt \in Prompts, refs \in ReferenceSets : handleGenerate(prompt, refs)
    \/ ChatRejected
    \/ ChatResponded
    \/ ImageRejected
    \/ ImageResponded
    \/ \E id \in ModelIds : handleToggleModel(id)
    \/ \E id \in ModelIds : handleDeleteModel(id)
    \/ \E m \in NewModels : handleAddModel(m)
    \/ handleResetModels
    \/ \E p \in {"openai", "xai"} : updateApiKey(p, "")
    \/ \E t \in Templates \ {DEFAULT_COMPARE_PROMPT} : updateComparePrompt(t)
    \/ updateStudioSettings(TRUE)

Spec == Init /\ [][Next]_vars

\* ------------------------------------------- usage extraction, in isolation
MaxTok == 2

TokenCounts == {Absent} \cup 0..MaxTok

UsageInputs ==
    { Response("ok", "", c, u) :
        c \in {<<"a">>, <<>>},
        u \in {NoVendorUsage} \cup
              { VendorUsage(p, q, t) : p \in TokenCounts, q \in TokenCounts,
                                       t \in {Absent} \cup 0..(2 * MaxTok) } }

InitUsage ==
    /\ models = INITIAL_MODELS
    /\ settings = INITIAL_SETTINGS
    /\ studioSettings = [imageCount |-> 1, videoMode |-> FALSE]
    /\ threads = SyncThreads(<<>>, INITIAL_MODELS)
    /\ gallery = <<>>
    /\ isGenerating = [m \in {} |-> FALSE]
    /\ calls = <<>>
    /\ nActions = 0
    /\ nEdits = 0
    /\ \E r \in UsageInputs : probe = [fn |-> "OpenAIGenerate", done |-> FALSE, in |-> r, out |-> Thrown("")]

ApplyOpenAIGenerate ==
    /\ probe.fn = "OpenAIGenerate"
    /\ ~probe.done
    /\ probe' = [probe EXCEPT !.done = TRUE, !.out = OpenAIGenerate(probe.in)]
    /\ UNCHANGED <<models, settings, studioSettings, threads, gallery, isGenerating, calls, nActions, nEdits>>

SpecUsage == InitUsage /\ [][ApplyOpenAIGenerate]_vars

\* ================================================================ claims
ChatInFlight(m) == Cardinality({i \in 1..Len(calls) : calls[i].kind = "chat" /\ calls[i].model = m})

ImageInFlight(m) == Cardinality({i \in 1..Len(calls) : calls[i].kind = "image" /\ calls[i].model = m})

CallsOf(m) == SelectSeq(calls, LAMBDA c : c.model = m)

\* what call i can settle to in the current state
SettleOutcomes(i) ==
    IF calls[i].stage = "rejected" THEN {Thrown(calls[i].rejectMsg)}
    ELSE {generateResponse(calls[i].adapter, r) : r \in ChatResponses}

SettlesChat(i, out) ==
    /\ calls[i].kind = "chat"
    /\ IF calls[i].stage = "rejected" THEN FirstRejected(i) ELSE NoMicrotask
    /\ SettleChat(i, out)

IsPrefix(s, t) == Len(s) <= Len(t) /\ SubSeq(t, 1, Len(s)) = s

SameThread(m) ==
    /\ (m \in DOMAIN threads') = (m \in DOMAIN threads)
    /\ m \in DOMAIN threads => threads'[m] = threads[m]

\* C1: a dispatched chat request sets the thread's typing flag, and once no
\* request for the model is pending the flag is false, whatever way the request
\* ended (success, adapter error, pre-flight error).
C1_TypingLifecycle ==
    [][\A m \in ModelIds :
          /\ ChatInFlight(m)' > ChatInFlight(m) => threads'[m].isTyping
          /\ (ChatInFlight(m)' = 0 /\ m \in DOMAIN threads') => ~threads'[m].isTyping
          /\ ImageInFlight(m)' > ImageInFlight(m) => isGenerating'[m]
          /\ (ImageInFlight(m)' = 0 /\ m \in DOMAIN isGenerating') => ~isGenerating'[m]]_vars

\* C1 witness: a request has ended in an error and left typing = false.
C1_Witness ==
    \E m \in DOMAIN threads :
        /\ ChatInFlight(m) = 0
        /\ Len(threads[m].messages) > 0
        /\ threads[m].error # NoError
        /\ ~threads[m].isTyping

\* a request that is alone for its model and whose dispatch state is intact
Solo(i) ==
    LET m == calls[i].model IN
    /\ ChatInFlight(m) = 1
    /\ threads[m].isTyping
    /\ threads[m].error = NoError

LastMessage(m) == threads[m].messages[Len(threads[m].messages)]

C3_ModelMessageCarriesText ==
    [][\A i \in 1..Len(calls) : \A out \in SettleOutcomes(i) :
          (SettlesChat(i, out) /\ ~out.threw) =>
             LET m == calls[i].model
                 after == threads'[m].messages
             IN /\ Len(after) = Len(threads[m].messages) + 1
                /\ after[Len(after)].role = "model"
                /\ after[Len(after)].text = out.text]_vars

\* C4: a settling call, and the user-message append and dispatch of a Send or
\* Global compare, change only the threads of the models they are for.
C4_OtherThreadsUnchanged ==
    [][/\ \A i \in 1..Len(calls) : \A out \in SettleOutcomes(i) :
            SettlesChat(i, out) => \A n \in ModelIds \ {calls[i].model} : SameThread(n)
       /\ ((\E inp \in UserInputs : handleSend(inp.text, inp.attachment)) \/ handleGlobalCompare) =>
            \A n \in ModelIds :
               IF CallsOf(n)' = CallsOf(n) THEN SameThread(n)
               ELSE /\ Len(threads'[n].messages) = Len(ThreadOf(threads, n).messages) + 1
                    /\ IsPrefix(ThreadOf(threads, n).messages, threads'[n].messages)
                    /\ threads'[n].messages[Len(threads'[n].messages)].role = "user"
                    /\ threads'[n].totalTokens = ThreadOf(threads, n).totalTokens]_vars

\* C4 witness: two threads with different content: one settled with a response
\* while the other still waits with its typing flag up.
C4_Witness ==
    \E m, n \in DOMAIN threads :
        /\ m # n
        /\ ChatInFlight(m) = 0 /\ Len(threads[m].messages) = 2 /\ ~threads[m].isTyping
        /\ threads[m].totalTokens > 0
        /\ ChatInFlight(n) = 1 /\ Len(threads[n].messages) = 1 /\ threads[n].isTyping
        /\ threads[n].totalTokens = 0

\* C5 (as claimed): never two generation calls in flight for one model.
C5_NeverTwoInFlight == \A m \in ModelIds : ChatInFlight(m) <= 1

\* C5 (amended): one user action dispatches at most one call per model; calls
\* of different user actions for the same model can overlap.
C5_OneCallPerAction == [][\A m \in ModelIds : ChatInFlight(m)' <= ChatInFlight(m) + 1]_vars

\* C5 witness: a second Send was issued before the first call settled.
C5_Witness == \E m \in ModelIds : ChatInFlight(m) = 2

\* C6: every step leaves each thread in place and its messages a prefix of
\* what they are afterwards.
C6_AppendOnly ==
    [][\A m \in DOMAIN threads :
          /\ m \in DOMAIN threads'
          /\ IsPrefix(threads[m].messages, threads'[m].messages)]_vars

\* C6 witness: a model was removed from the list and its thread kept its messages.
C6_Witness ==
    \E m \in DOMAIN threads :
        /\ Len(threads[m].messages) > 0
        /\ ~\E i \in 1..Len(models) : models[i].id = m

RECURSIVE SumUsage(_)
SumUsage(msgs) ==
    IF msgs = <<>> THEN 0
    ELSE (IF Head(msgs).usage.present THEN Head(msgs).usage.totalTokens ELSE 0) + SumUsage(Tail(msgs))

\* C7: a thread's cumulative total is the sum of the totals of the usage its
\* messages carry (0 without any), and no step decreases it.
C7_TokenTotal ==
    /\ [](\A m \in DOMAIN threads : threads[m].totalTokens = SumUsage(threads[m].messages))
    /\ [][\A m \in DOMAIN threads : threads'[m].totalTokens >= threads[m].totalTokens]_vars

\* C7 witness: two usage events have accumulated, next to messages without usage.
C7_Witness ==
    \E m \in DOMAIN threads :
        /\ threads[m].totalTokens = 4
        /\ \E k \in 1..Len(threads[m].messages) : ~threads[m].messages[k].usage.present

\* C8 (as claimed): with a usage object, input and output are the vendor's
\* counts and the total is the vendor's total when supplied, their sum
\* otherwise; without a usage object the result carries no usage.
C8_UsageExtraction ==
    (probe.fn = "OpenAIGenerate" /\ probe.done /\ probe.in.content # <<>>) =>
        LET u == probe.in.usage
            got == probe.out.usage
        IN IF u.present
           THEN /\ got.present
                /\ got.inputTokens = OrZero(u.prompt_tokens)
                /\ got.outputTokens = OrZero(u.completion_tokens)
                /\ got.totalTokens = IF u.total_tokens # Absent THEN u.total_tokens
                                     ELSE got.inputTokens + got.outputTokens
           ELSE ~got.present

\* String.prototype.replaceAll-free verbatim substitution: what the claim describes
VerbatimReplace(t, pattern, repl) ==
    LET i == IndexOf(t, pattern) IN
    IF i = 0 THEN t ELSE SubSeq(t, 1, i - 1) \o repl \o SubSeq(t, i + 1, Len(t))

\* C9 (as claimed): Global compare gives each active model with at least one
\* usable other response exactly one new user turn, whose text is the template
\* with the placeholder replaced by the other models' tagged responses verbatim.
C9_ComparePromptVerbatim ==
    [][(handleGlobalCompare /\ Len(activeTextModels) >= 2) =>
          \A k \in 1..Len(activeTextModels) :
             LET M == activeTextModels[k]
                 others == OtherBlocks(activeTextModels, M.id, threads)
                 before == ThreadOf(threads, M.id).messages
             IN Len(others) > 0 =>
                  /\ Len(threads'[M.id].messages) = Len(before) + 1
                  /\ threads'[M.id].messages[Len(before) + 1].role = "user"
                  /\ threads'[M.id].messages[Len(before) + 1].text =
                        VerbatimReplace(settings.comparePromptTemplate, PLACEHOLDER,
                                        Join(others, <<"\n\n">>))]_vars

\* C10: Global compare changes nothing for a model when fewer than two models
\* are active or no other active model's latest message is model-authored:
\* same thread, no new call; and it records no error in any thread.
C10_CompareNoOp ==
    [][handleGlobalCompare =>
          /\ \A M \in ModelIds :
                (Len(activeTextModels) < 2 \/ OtherBlocks(activeTextModels, M, threads) = <<>>)
                   => SameThread(M) /\ CallsOf(M)' = CallsOf(M)
          /\ \A n \in DOMAIN threads' :
                threads'[n].error # NoError => threads'[n].error = ThreadOf(threads, n).error]_vars

\* C10 witness: after a Send in which one model answered and the other failed,
\* Global compare prompted only the failed one; for the one that answered it was a no-op.
C10_Witness ==
    /\ nActions = 2
    /\ \E m, n \in DOMAIN threads :
          /\ m # n
          /\ Len(threads[m].messages) = 2 /\ LastMessage(m).role = "model"
          /\ ChatInFlight(m) = 0
          /\ Len(threads[n].messages) = 2 /\ LastMessage(n).role = "user"
          /\ ~LastMessage(n).attachment.present
          /\ ChatInFlight(n) = 1

\* ==================================================== utils/files.ts
\* A MIME type string split at its first slash; the model's universe of types.
MimeTypes == {"text/plain", "text/markdown", "image/png", "image/svg+xml", "application/json",
              "application/pdf", "application/octet-stream", ""}

MimeParts(mime) ==
    CASE mime = "text/plain" -> <<"text/", "plain">>
      [] mime = "text/markdown" -> <<"text/", "markdown">>
      [] mime = "image/png" -> <<"image/", "png">>
      [] mime = "image/svg+xml" -> <<"image/", "svg+xml">>
      [] mime = "application/json" -> <<"application/", "json">>
      [] mime = "application/pdf" -> <<"application/", "pdf">>
      [] mime = "application/octet-stream" -> <<"application/", "octet-stream">>
      [] OTHER -> <<"", mime>>

textApplicationTypes ==
    {"application/json", "application/jsonl", "application/xml", "application/javascript",
     "application/typescript", "application/x-javascript", "application/x-typescript"}

\* mime.includes(pattern) for the patterns isTextBasedMime looks for
TextPatterns == {"javascript", "typescript", "python", "csv", "yaml", "xml", "json"}

\* the patterns a MIME type contains as a substring
MimeIncludes(mime) ==
    CASE MimeParts(mime)[2] = "svg+xml" -> {"xml"}
      [] MimeParts(mime)[2] \in TextPatterns -> {MimeParts(mime)[2]}
      [] OTHER -> {}

isTextBasedMime(mime) ==
    \/ MimeParts(mime)[1] = "text/"
    \/ mime \in textApplicationTypes
    \/ MimeIncludes(mime) \cap TextPatterns # {}

isImageMime(mime) == MimeParts(mime)[1] = "image/"

\* atob + TextDecoder: each base64 chunk decodes to its text; a chunk that is
\* not base64 makes atob throw and the catch returns the error text.
Base64Chunks == {"d", "i"}

DecodeChunk(c) == IF c = "d" THEN "D" ELSE "I"

decodeBase64Text(base64) ==
    IF \E k \in 1..Len(base64) : base64[k] \notin Base64Chunks
    THEN <<"[Error decoding file content]">>
    ELSE [k \in 1..Len(base64) |-> DecodeChunk(base64[k])]

\* ============================== AnthropicProvider.normalizeMessages
MaxHistory == 3

TextBlock(text) == [type |-> "text", text |-> text, media_type |-> "", data |-> <<>>]
ImageBlock(mime, data) == [type |-> "image", text |-> <<>>, media_type |-> mime, data |-> data]

\* msg.text?.trim() as a condition
HasText(text) == text # Undefined /\ Trim(text) # <<>>

AnthropicAttachmentBlocks(att) ==
    IF ~att.present THEN <<>>
    ELSE IF isImageMime(att.mimeType) THEN <<ImageBlock(att.mimeType, att.data)>>
    ELSE IF isTextBasedMime(att.mimeType)
         THEN <<TextBlock(<<"\n--- Attached File: ">> \o att.name \o <<" ---\n">>
                          \o decodeBase64Text(att.data) \o <<"\n--- End File ---\n">>)>>
    ELSE <<TextBlock(<<"[Unsupported file attachment: ">> \o att.name \o <<" (", att.mimeType, ")]">>)>>

\* variant: the text block is pushed before the attachment block
AnthropicBlocksTextFirst(msg) ==
    (IF HasText(msg.text) THEN <<TextBlock(msg.text)>> ELSE <<>>)
        \o AnthropicAttachmentBlocks(msg.attachment)

AnthropicBlocks(msg) ==
    AnthropicAttachmentBlocks(msg.attachment)
        \o (IF HasText(msg.text) THEN <<TextBlock(msg.text)>> ELSE <<>>)

AnthropicRole(msg) == IF msg.role = "model" THEN "assistant" ELSE "user"

\* the for loop and the push that follows it; currentRole "" is null
RECURSIVE NormalizeLoop(_, _, _, _)
NormalizeLoop(inputs, normalized, currentRole, currentBlocks) ==
    IF inputs = <<>>
    THEN IF currentRole # "" THEN Append(normalized, [role |-> currentRole, content |-> currentBlocks])
         ELSE normalized
    ELSE LET msg == Head(inputs)
             blocks == AnthropicBlocks(msg)
             msgRole == AnthropicRole(msg)
         IN IF blocks = <<>> THEN NormalizeLoop(Tail(inputs), normalized, currentRole, currentBlocks)
            ELSE IF msgRole = currentRole
                 THEN NormalizeLoop(Tail(inputs), normalized, currentRole, currentBlocks \o blocks)
            ELSE NormalizeLoop(Tail(inputs),
                               IF currentRole # ""
                                  THEN Append(normalized, [role |-> currentRole, content |-> currentBlocks])
                                  ELSE normalized,
                               msgRole, blocks)

CurrentMessage(newMessage, attachment) ==
    [role |-> "user", text |-> newMessage, attachment |-> attachment, usage |-> NoUsage]

\* variant: the leading assistant turn is kept
normalizeMessagesNoShift(history, newMessage, attachment) ==
    NormalizeLoop(Append(history, CurrentMessage(newMessage, attachment)), <<>>, "", <<>>)

normalizeMessages(history, newMessage, attachment) ==
    LET normalized == NormalizeLoop(Append(history, CurrentMessage(newMessage, attachment)), <<>>, "", <<>>)
    IN IF Len(normalized) > 0 /\ normalized[1].role # "user" THEN Tail(normalized) ELSE normalized

\* the histories the normalizers are applied to
HistoryMessages ==
    { [role |-> r, text |-> t, attachment |-> a, usage |-> NoUsage] :
         r \in {"user", "model"}, t \in {<<>>, <<"q">>}, a \in {NoAttachment, ImageFile} }
    \cup { [role |-> "model", text |-> Undefined, attachment |-> NoAttachment, usage |-> NoUsage] }

RECURSIVE SeqsUpTo(_, _)
SeqsUpTo(S, n) ==
    IF n = 0 THEN {<<>>}
    ELSE LET shorter == SeqsUpTo(S, n - 1)
         IN shorter \cup { Append(h, x) : h \in shorter, x \in S }

Histories == SeqsUpTo(HistoryMessages, MaxHistory)

NormalizeInputs ==
    { [history |-> h, newMessage |-> t, attachment |-> a] :
         h \in Histories, t \in {<<>>, <<"q">>}, a \in {NoAttachment, TextFile} }

InitNormalize ==
    /\ models = INITIAL_MODELS
    /\ settings = INITIAL_SETTINGS
    /\ studioSettings = [imageCount |-> 1, videoMode |-> FALSE]
    /\ threads = SyncThreads(<<>>, INITIAL_MODELS)
    /\ gallery = <<>>
    /\ isGenerating = [m \in {} |-> FALSE]
    /\ calls = <<>>
    /\ nActions = 0
    /\ nEdits = 0
    /\ \E x \in NormalizeInputs : probe = [fn |-> "normalizeMessages", done |-> FALSE, in |-> x, out |-> <<>>]

ApplyNormalizeMessages ==
    /\ probe.fn = "normalizeMessages"
    /\ ~probe.done
    /\ probe' = [probe EXCEPT !.done = TRUE,
                              !.out = normalizeMessages(probe.in.history, probe.in.newMessage, probe.in.attachment)]
    /\ UNCHANGED <<models, settings, studioSettings, threads, gallery, isGenerating, calls, nActions, nEdits>>

SpecNormalize == InitNormalize /\ [][ApplyNormalizeMessages]_vars

\* C11: whatever the history and the new message, a non-empty normalizer
\* output starts with a user turn and no two adjacent turns have the same role.
C11_NormalizedAlternates ==
    (probe.fn = "normalizeMessages" /\ probe.done /\ probe.out # <<>>) =>
        /\ probe.out[1].role = "user"
        /\ \A k \in 1..(Len(probe.out) - 1) : probe.out[k].role # probe.out[k + 1].role

\* C11 witness: a history model, user, model, each with content, came out as
\* three turns: the leading model turn was dropped and the new message closed it.
C11_Witness ==
    /\ probe.fn = "normalizeMessages" /\ probe.done
    /\ Len(probe.in.history) = 3
    /\ probe.in.history[1].role = "model" /\ AnthropicBlocks(probe.in.history[1]) # <<>>
    /\ probe.in.history[2].role = "user" /\ AnthropicBlocks(probe.in.history[2]) # <<>>
    /\ probe.in.history[3].role = "model" /\ AnthropicBlocks(probe.in.history[3]) # <<>>
    /\ Len(probe.out) = 3

\* ===================================== dispatch under every configuration
\* One model at a time, over every provider, with and without its own
\* apiKey / baseUrl override, under global keys that are unset, blank or set.
WithBaseUrl(m, url) == [m EXCEPT !.baseUrl = url]

DispatchModels ==
    { WithBaseUrl(Model("m", <<"M">>, p, {"text"}, k), u) :
         p \in Providers, k \in {"", "MK"}, u \in {"", "MU"} }
    \cup { WithBaseUrl(Model("m", <<"M">>, p, {"image"}, k), u) :
         p \in ImageProviders, k \in {"", "MK"}, u \in {"", "MU"} }

GlobalKeys == {"", " ", "K"}

DispatchSettings(k) ==
    [INITIAL_SETTINGS EXCEPT
        !.apiKeys = [p \in Providers \cup ImageProviders |-> k],
        !.apiEndpoints = [p \in {"openai", "anthropic", "xai"} |-> "U"]]

InitDispatch ==
    /\ \E m \in DispatchModels :
          /\ models = <<m>>
          /\ threads = SyncThreads(<<>>, <<m>>)
    /\ \E k \in GlobalKeys : settings = DispatchSettings(k)
    /\ studioSettings = [imageCount |-> 1, videoMode |-> FALSE]
    /\ gallery = <<>>
    /\ isGenerating = [m \in {} |-> FALSE]
    /\ calls = <<>>
    /\ nActions = 0
    /\ nEdits = 0
    /\ probe = NoProbe

NextDispatch ==
    \/ \E inp \in UserInputs : handleSend(inp.text, inp.attachment)
    \/ \E prompt \in Prompts, refs \in ReferenceSets : handleGenerate(prompt, refs)
    \/ ChatRejected
    \/ ChatResponded
    \/ ImageRejected
    \/ ImageResponded

SpecDispatch == InitDispatch /\ [][NextDispatch]_vars

MissingKeyMessages ==
    {"Gemini API Key is missing.", "Anthropic API Key missing.", "API Key missing."}

\* C12: no request that has gone to the network carries a missing or empty
\* API key, in the chat adapters and in the Studio image path alike; a chat
\* call with such a key is rejected before its first fetch.
C12_MissingKeyNoNetwork ==
    \A i \in 1..Len(calls) :
        /\ calls[i].stage = "fetch" => calls[i].apiKey # ""
        /\ (calls[i].kind = "chat" /\ calls[i].apiKey = "") =>
              calls[i].stage = "rejected" /\ calls[i].rejectMsg \in MissingKeyMessages

\* C12 witness: a Send for a model without any key ended as a local error on
\* the thread, with nothing in flight and no response appended.
C12_Witness ==
    /\ calls = <<>>
    /\ \E i \in 1..Len(models) :
          /\ ResolveApiKey(models[i], settings) = ""
          /\ threads[models[i].id].error \in MissingKeyMessages
          /\ Len(threads[models[i].id].messages) = 1

\* ============================ the chat adapters' response handling, in isolation
ChatAdapters == {"openai", "anthropic", "google"}

ErrorBodies == {"json_msg", "json_nomsg", "raw"}

GenerateInputs ==
    { [adapter |-> a, response |-> r] :
         a \in ChatAdapters,
         r \in UsageInputs
               \cup { Response("http", b, <<>>, NoVendorUsage) : b \in ErrorBodies }
               \cup { Response("network", "", <<>>, NoVendorUsage) } }

InitGenerate ==
    /\ models = INITIAL_MODELS
    /\ settings = INITIAL_SETTINGS
    /\ studioSettings = [imageCount |-> 1, videoMode |-> FALSE]
    /\ threads = SyncThreads(<<>>, INITIAL_MODELS)
    /\ gallery = <<>>
    /\ isGenerating = [m \in {} |-> FALSE]
    /\ calls = <<>>
    /\ nActions = 0
    /\ nEdits = 0
    /\ \E x \in GenerateInputs : probe = [fn |-> "generateResponse", done |-> FALSE, in |-> x, out |-> Thrown("")]

ApplyGenerateResponse ==
    /\ probe.fn = "generateResponse"
    /\ ~probe.done
    /\ probe' = [probe EXCEPT !.done = TRUE, !.out = generateResponse(probe.in.adapter, probe.in.response)]
    /\ UNCHANGED <<models, settings, studioSettings, threads, gallery, isGenerating, calls, nActions, nEdits>>

SpecGenerate == InitGenerate /\ [][ApplyGenerateResponse]_vars

\* C13 (as claimed): a 2xx response without usable text makes generate fail;
\* no adapter returns a result for it.
C13_NoTextIsError ==
    (probe.fn = "generateResponse" /\ probe.done
        /\ probe.in.response.kind = "ok" /\ probe.in.response.content = <<>>) => probe.out.threw

VendorErrorMessage == "vendor error.message"

\* C14 (as claimed, for a JSON error body that carries error.message): the
\* error thrown by the OpenAI-compatible and Anthropic adapters for a non-2xx
\* response is the vendor's message, not the raw-body fallback.
C14_VendorMessageKept ==
    (probe.fn = "generateResponse" /\ probe.done
        /\ probe.in.adapter \in {"openai", "anthropic"}
        /\ probe.in.response.kind = "http" /\ probe.in.response.body = "json_msg")
      => probe.out.threw /\ probe.out.message = VendorErrorMessage

\* ================================= OpenRouterImageProvider response parsing
MaxContent == 2

\* The chat text is a sequence of pieces: a word, a markdown image ![alt](url)
\* (its target may be empty), a parenthesised http(s) URL, a bare http(s) URL.
ContentPiece(kind, url) == [kind |-> kind, url |-> url]

ContentPieces ==
    { ContentPiece("word", ""), ContentPiece("md", "https://md"), ContentPiece("md", ""),
      ContentPiece("paren", "https://paren"), ContentPiece("bare", "https://bare") }

\* content.match(regex): the capture group of the leftmost match, or no match
NoMatch == [matched |-> FALSE, group |-> ""]

FirstOfKind(content, kinds) ==
    IF \E k \in 1..Len(content) : content[k].kind \in kinds
    THEN [matched |-> TRUE,
          group |-> content[CHOOSE k \in 1..Len(content) :
                               /\ content[k].kind \in kinds
                               /\ \A j \in 1..(k - 1) : content[j].kind \notin kinds].url]
    ELSE NoMatch

\* /!\[.*?\]\((.*?)\)/ || /\((https?:\/\/.*?)\)/ || /(https?:\/\/[^\s)]+)/
mdMatch(content) ==
    LET image == FirstOfKind(content, {"md"})
        paren == FirstOfKind(SelectSeq(content, LAMBDA c : c.url # ""), {"md", "paren"})
        bare == FirstOfKind(SelectSeq(content, LAMBDA c : c.url # ""), {"md", "paren", "bare"})
    IN IF image.matched THEN image
       ELSE IF paren.matched THEN paren
       ELSE bare

ImageThrownParse(msg) == [threw |-> TRUE, message |-> msg, url |-> <<>>]
ImageParsed(url) == [threw |-> FALSE, message |-> "", url |-> url]

\* generateImage from response.json() on; "" is an absent field
ParseOpenRouter(data) ==
    LET m == mdMatch(data.content) IN
    IF m.matched /\ m.group # "" THEN ImageParsed(<<m.group>>)
    ELSE IF data.images0.image_url_url # "" THEN ImageParsed(<<data.images0.image_url_url>>)
    ELSE IF data.images0.url # "" THEN ImageParsed(<<data.images0.url>>)
    ELSE IF data.data0.url # "" \/ data.data0.b64_json # ""
         THEN ImageParsed(IF data.data0.b64_json # ""
                          THEN <<"data:image/png;base64,", data.data0.b64_json>>
                          ELSE <<data.data0.url>>)
    ELSE ImageThrownParse("No image URL found in OpenRouter response.")

OpenRouterResponses ==
    { [content |-> c, images0 |-> [image_url_url |-> a, url |-> b], data0 |-> [url |-> d, b64_json |-> e]] :
         c \in SeqsUpTo(ContentPieces, MaxContent),
         a \in {"", "https://nested-image-url"}, b \in {"", "https://nested-url"},
         d \in {"", "https://root"}, e \in {"", "b64"} }

InitOpenRouter ==
    /\ models = INITIAL_MODELS
    /\ settings = INITIAL_SETTINGS
    /\ studioSettings = [imageCount |-> 1, videoMode |-> FALSE]
    /\ threads = SyncThreads(<<>>, INITIAL_MODELS)
    /\ gallery = <<>>
    /\ isGenerating = [m \in {} |-> FALSE]
    /\ calls = <<>>
    /\ nActions = 0
    /\ nEdits = 0
    /\ \E x \in OpenRouterResponses :
          probe = [fn |-> "ParseOpenRouter", done |-> FALSE, in |-> x, out |-> ImageThrownParse("")]

ApplyParseOpenRouter ==
    /\ probe.fn = "ParseOpenRouter"
    /\ ~probe.done
    /\ probe' = [probe EXCEPT !.done = TRUE, !.out = ParseOpenRouter(probe.in)]
    /\ UNCHANGED <<models, settings, studioSettings, threads, gallery, isGenerating, calls, nActions, nEdits>>

SpecOpenRouter == InitOpenRouter /\ [][ApplyParseOpenRouter]_vars

\* the three strategies as the claim describes them
HasMarkdownImage(data) ==
    \E k \in 1..Len(data.content) : data.content[k].kind = "md" /\ data.content[k].url # ""
HasNestedImage(data) == data.images0.image_url_url # "" \/ data.images0.url # ""
HasRootData(data) == data.data0.url # "" \/ data.data0.b64_json # ""

\* C15 (as claimed): a response with no markdown image link in its text and a
\* nested message.images[0] reference yields that reference (image_url.url,
\* then url); one with neither and a root data[0] yields the root entry; the
\* no-image error is raised only when no strategy matches.
C15_FirstMatchingStrategy ==
    (probe.fn = "ParseOpenRouter" /\ probe.done) =>
        LET data == probe.in IN
        /\ (~HasMarkdownImage(data) /\ HasNestedImage(data)) =>
              probe.out = ImageParsed(IF data.images0.image_url_url # ""
                                      THEN <<data.images0.image_url_url>>
                                      ELSE <<data.images0.url>>)
        /\ (~HasMarkdownImage(data) /\ ~HasNestedImage(data) /\ HasRootData(data)) =>
              ~probe.out.threw /\ probe.out.url[Len(probe.out.url)] \in {data.data0.url, data.data0.b64_json}
        /\ probe.out.threw => ~(HasMarkdownImage(data) \/ HasNestedImage(data) \/ HasRootData(data))

\* ===================================== image adapters: the request they build
XAI_PROMPT_LIMIT == 1000

\* "xAI has a strict 1024 character limit for prompts"
XAI_DOCUMENTED_LIMIT == 1024

MaxPrompt == 1500

Min(a, b) == IF a <= b THEN a ELSE b

\* String.prototype.substring(0, n)
Substring0(t, n) == SubSeq(t, 1, Min(n, Len(t)))

\* variant: the prompt is transmitted whole
truncatedPromptUncut(prompt) == prompt

truncatedPrompt(prompt) ==
    IF Len(prompt) > XAI_PROMPT_LIMIT THEN Substring0(prompt, XAI_PROMPT_LIMIT) ELSE prompt

\* What generateImage puts on the wire, or the error it throws before any fetch.
\* images are the reference images that are part of the request.
ImageRequest(endpoint, model, n, format, prompt, images) ==
    [threw |-> FALSE, message |-> "", endpoint |-> endpoint, model |-> model, n |-> n,
     response_format |-> format, prompt |-> prompt, images |-> images]

ImageRequestThrown(msg) ==
    [threw |-> TRUE, message |-> msg, endpoint |-> "", model |-> "", n |-> Absent,
     response_format |-> "", prompt |-> <<>>, images |-> <<>>]

XAIImageRequest(options) ==
    IF Len(options.referenceImages) > 0
    THEN ImageRequestThrown("Image input / variations are not currently supported by the xAI provider.")
    ELSE ImageRequest("/images/generations",
                      OrElse(options.imageModelId, OrElse(options.modelId, "grok-2-image-latest")),
                      options.imageCount, "b64_json", truncatedPrompt(options.prompt), <<>>)

OpenAIImageRequest(options) ==
    LET model == OrElse(options.imageModelId, OrElse(options.modelId, "gpt-image-1")) IN
    IF Len(options.referenceImages) > 0
    THEN ImageRequest("/images/edits", model, 1, "", options.prompt, <<options.referenceImages[1]>>)
    ELSE ImageRequest("/images/generations", model, 1, "", options.prompt, <<>>)

GoogleImageRequest(options) ==
    IF options.videoMode
    THEN ImageRequestThrown("Video generation is not currently supported by the Google provider (Gemini/Imagen).")
    ELSE ImageRequest(":generateContent", OrElse(options.imageModelId, options.modelId), 1, "",
                      options.prompt \o (IF options.aspectRatio # ""
                                         THEN <<" --aspect-ratio ", options.aspectRatio>> ELSE <<>>),
                      options.referenceImages)

OpenRouterImageRequest(options) ==
    ImageRequest("/chat/completions", options.modelId, Absent, "", options.prompt, <<>>)

BuildImageRequest(provider, options) ==
    IF provider = "google" THEN GoogleImageRequest(options)
    ELSE IF provider = "openai" THEN OpenAIImageRequest(options)
    ELSE IF provider = "xai" THEN XAIImageRequest(options)
    ELSE OpenRouterImageRequest(options)

PromptOfLength(n) == [k \in 1..n |-> IF k % 2 = 0 THEN "a" ELSE "b"]

PromptLengths ==
    {0, 1, XAI_PROMPT_LIMIT - 1, XAI_PROMPT_LIMIT, XAI_PROMPT_LIMIT + 1,
     XAI_DOCUMENTED_LIMIT - 1, XAI_DOCUMENTED_LIMIT, XAI_DOCUMENTED_LIMIT + 1, MaxPrompt}

SecondImage == [present |-> TRUE, mimeType |-> "image/png", name |-> <<"r2">>, data |-> <<"i", "i">>]

ImageOptions ==
    { [provider |-> p, modelId |-> "img-model", imageModelId |-> o, prompt |-> PromptOfLength(n),
       imageCount |-> c, videoMode |-> v, aspectRatio |-> ar, referenceImages |-> refs] :
         p \in ImageProviders, o \in {"", "override-model"}, n \in PromptLengths, c \in 1..MaxResults,
         v \in BOOLEAN, ar \in {"", "1:1"},
         refs \in {<<>>, <<ImageFile>>, <<ImageFile, SecondImage>>} }

InitImageRequest ==
    /\ models = INITIAL_MODELS
    /\ settings = INITIAL_SETTINGS
    /\ studioSettings = [imageCount |-> 1, videoMode |-> FALSE]
    /\ threads = SyncThreads(<<>>, INITIAL_MODELS)
    /\ gallery = <<>>
    /\ isGenerating = [m \in {} |-> FALSE]
    /\ calls = <<>>
    /\ nActions = 0
    /\ nEdits = 0
    /\ \E x \in ImageOptions :
          probe = [fn |-> "generateImage", done |-> FALSE, in |-> x, out |-> ImageRequestThrown("")]

ApplyBuildImageRequest ==
    /\ probe.fn = "generateImage"
    /\ ~probe.done
    /\ probe' = [probe EXCEPT !.done = TRUE, !.out = BuildImageRequest(probe.in.provider, probe.in)]
    /\ UNCHANGED <<models, settings, studioSettings, threads, gallery, isGenerating, calls, nActions, nEdits>>

SpecImageRequest == InitImageRequest /\ [][ApplyBuildImageRequest]_vars

XAISent == probe.fn = "generateImage" /\ probe.done /\ probe.in.provider = "xai" /\ ~probe.out.threw

C17_ReferenceImagesNotDropped ==
    (probe.fn = "generateImage" /\ probe.done /\ Len(probe.in.referenceImages) > 0) =>
        probe.out.threw \/ Len(probe.out.images) > 0

\* settings.apiEndpoints[provider], "" where no endpoint is configured
GlobalEndpoint(st, provider) ==
    IF provider \in DOMAIN st.apiEndpoints THEN st.apiEndpoints[provider] ELSE ""

\* C18 (as claimed): every dispatched call, chat or Studio, carries the
\* model's own API key and base URL when the model sets them and the global
\* per-provider values otherwise.
C18_OverridePreferred ==
    \A i \in 1..Len(calls) :
        LET m == FindModel(models, calls[i].model) IN
        /\ calls[i].apiKey = OrElse(m.apiKey, settings.apiKeys[m.provider])
        /\ calls[i].baseUrl = OrElse(m.baseUrl, GlobalEndpoint(settings, m.provider))

\* ------------------------------------------- requests are fixed at dispatch
\* the call c is what a dispatch from the state (ms, st, sst, th) builds
DispatchedFrom(c, ms, st, sst, th) ==
    LET m == FindModel(ms, c.model) IN
    IF c.kind = "chat"
    THEN /\ c.apiKey = ResolveApiKey(m, st)
         /\ c.baseUrl = ResolveBaseUrl(m, st)
         /\ c.systemInstruction = st.systemPrompt
         /\ c.history = ThreadOf(th, c.model).messages
    ELSE /\ c.apiKey = StudioApiKey(m, st)
         /\ c.baseUrl = StudioBaseUrl(m, st)
         /\ c.imageCount = sst.imageCount

\* C19: in every step the calls already in flight keep their API key, base
\* URL, system instruction and history exactly (a step only removes the one
\* call that settles, or appends new calls), whatever the step changes in the
\* settings, the model list or the threads; and every call a step dispatches
\* is built from the settings, models and threads current at that step.
C19_FixedAtDispatch ==
    [][ \/ calls' = calls
        \/ \E i \in 1..Len(calls) : calls' = RemoveAt(calls, i)
        \/ /\ Len(calls') > Len(calls)
           /\ SubSeq(calls', 1, Len(calls)) = calls
           /\ \A k \in (Len(calls) + 1)..Len(calls') :
                 DispatchedFrom(calls'[k], models, settings, studioSettings, threads)
      ]_vars

\* C19 witness: the API key was cleared while a request was in flight; that
\* request still carries the key it was dispatched with, and a request for
\* the same model dispatched after the change carries the cleared key.
C19_Witness ==
    \E i, j \in 1..Len(calls) :
        /\ i < j
        /\ calls[i].kind = "chat" /\ calls[j].kind = "chat"
        /\ calls[i].model = calls[j].model
        /\ calls[i].stage = "fetch"
        /\ calls[i].apiKey = "K"
        /\ calls[j].apiKey = ""
        /\ settings.apiKeys[FindModel(models, calls[i].model).provider] = ""

\* ------------------------------------------- errors on the thread, no retry
InFlight(m) == ChatInFlight(m) + ImageInFlight(m)

\* the text under which a Studio error is looked for on the thread
RecordedImageText(msg, prefixed) == IF prefixed THEN ErrorText(msg) ELSE <<msg>>

\* the step settles the chat call c as the claim requires: on a failure the
\* thread of c.model holds the adapter's message as its error, is no longer
\* typing and has the messages it had; on a success one message is appended
ChatSettledAsClaimed(c) ==
    LET m == c.model
        outs == IF c.stage = "rejected" THEN {Thrown(c.rejectMsg)}
                ELSE {generateResponse(c.adapter, r) : r \in ChatResponses}
    IN /\ \A k \in DOMAIN threads \ {m} : threads'[k] = threads[k]
       /\ ~threads'[m].isTyping
       /\ \E out \in outs :
             IF out.threw
             THEN /\ threads'[m].error = out.message
                  /\ threads'[m].messages = threads[m].messages
             ELSE /\ Len(threads'[m].messages) = Len(threads[m].messages) + 1
                  /\ threads'[m].error = threads[m].error

\* the step settles the Studio call c: on a failure one model message with
\* the adapter's message as its text is appended to the thread of c.model
\* (prefixed: behind the fixed text "Error: "); on a success one message with
\* an attachment per result
ImageSettledAsClaimed(c, prefixed) ==
    LET m == c.model
        outs == IF c.stage = "rejected" THEN {ImageThrown(c.rejectMsg)} ELSE ImageResponses
        old == threads[m].messages
        new == threads'[m].messages
    IN /\ \A k \in DOMAIN threads \ {m} : threads'[k] = threads[k]
       /\ ~isGenerating'[m]
       /\ IsPrefix(old, new)
       /\ \E out \in outs :
             IF out.threw
             THEN /\ new = Append(old, NewMessage(RecordedImageText(out.message, prefixed),
                                                  "model", NoAttachment, NoUsage))
             ELSE /\ Len(new) = Len(old) + Len(out.results)
                  /\ \A k \in (Len(old) + 1)..Len(new) : new[k].attachment.present

\* what one step may do to the calls, and what a settling step leaves behind
ErrorsRecordedNoRetry(prefixed) ==
    \/ /\ calls' = calls
    \/ /\ Len(calls') = Len(calls) - 1
       /\ \E i \in 1..Len(calls) :
             /\ calls' = RemoveAt(calls, i)
             /\ IF calls[i].kind = "chat" THEN ChatSettledAsClaimed(calls[i])
                ELSE ImageSettledAsClaimed(calls[i], prefixed)
    \/ /\ Len(calls') > Len(calls)
       /\ SubSeq(calls', 1, Len(calls)) = calls
       /\ nActions' = nActions + 1
       /\ \A m \in ModelIds : InFlight(m)' <= InFlight(m) + 1

RequestModelIds == {"gpt-4o", "o1-mini"}

StartsWithO1(modelId) == modelId \in {"o1", "o1-mini", "o1-preview"}

NoImageUrl == [present |-> FALSE, mimeType |-> "", data |-> <<>>]

\* one element of the messages array: role, the text content and, on the
\* final turn, the image_url part when there is one
OpenAIMessage(role, text, image) == [role |-> role, text |-> text, image |-> image]

OpenAISystemTurns(modelId, systemInstruction) ==
    IF systemInstruction = <<>> THEN <<>>
    ELSE IF StartsWithO1(modelId)
         THEN <<OpenAIMessage("user", <<"System Instruction: ">> \o systemInstruction, NoImageUrl)>>
    ELSE <<OpenAIMessage("system", systemInstruction, NoImageUrl)>>

OpenAIHistoryTurns(history) ==
    [k \in 1..Len(history) |->
        OpenAIMessage(IF history[k].role = "model" THEN "assistant" ELSE "user", history[k].text, NoImageUrl)]

\* variant: an attachment never adds anything to the text
textToSendBare(newMessage, att) == newMessage

textToSend(newMessage, att) ==
    IF ~att.present THEN newMessage
    ELSE IF isTextBasedMime(att.mimeType)
         THEN newMessage \o <<"\n\n--- Attached File: ">> \o att.name \o <<" ---\n">>
                  \o decodeBase64Text(att.data) \o <<"\n--- End File ---">>
    ELSE IF ~isImageMime(att.mimeType)
         THEN newMessage \o <<"\n\n[Note: Attached file \"">> \o att.name \o <<"\" (", att.mimeType,
                               ") could not be processed - unsupported format]">>
    ELSE newMessage

OpenAIImagePart(att) ==
    IF att.present /\ isImageMime(att.mimeType)
    THEN [present |-> TRUE, mimeType |-> att.mimeType, data |-> att.data]
    ELSE NoImageUrl

OpenAIMessages(modelId, history, newMessage, systemInstruction, att) ==
    OpenAISystemTurns(modelId, systemInstruction)
        \o OpenAIHistoryTurns(history)
        \o <<OpenAIMessage("user", textToSend(newMessage, att), OpenAIImagePart(att))>>

\* the attachments a file picker can produce: every MIME type of the
\* universe over base64 data (FileReader.readAsDataURL) of up to two chunks
PickedFiles ==
    { [present |-> TRUE, mimeType |-> mt, name |-> <<"f">>, data |-> d] :
         mt \in MimeTypes \ {""}, d \in {<<>>, <<"d">>, <<"d", "i">>} }

RequestHistories ==
    {<<>>} \cup { <<[role |-> r, text |-> <<"h">>, attachment |-> NoAttachment, usage |-> NoUsage]>> :
                     r \in {"user", "model"} }

RequestInputs ==
    { [modelId |-> id, history |-> h, newMessage |-> t, systemInstruction |-> si, attachment |-> a] :
         id \in RequestModelIds, h \in RequestHistories, t \in {<<>>, <<"q">>},
         si \in {<<>>, <<"s">>}, a \in {NoAttachment} \cup PickedFiles }

InitRequest ==
    /\ models = INITIAL_MODELS
    /\ settings = INITIAL_SETTINGS
    /\ studioSettings = [imageCount |-> 1, videoMode |-> FALSE]
    /\ threads = SyncThreads(<<>>, INITIAL_MODELS)
    /\ gallery = <<>>
    /\ isGenerating = [m \in {} |-> FALSE]
    /\ calls = <<>>
    /\ nActions = 0
    /\ nEdits = 0
    /\ \E x \in RequestInputs :
          probe = [fn |-> "request", done |-> FALSE, in |-> x, out |-> [openai |-> <<>>, anthropic |-> <<>>]]

\* both adapters build their request from the same GenerateOptions
ApplyBuildRequest ==
    /\ probe.fn = "request"
    /\ ~probe.done
    /\ probe' = [probe EXCEPT
          !.done = TRUE,
          !.out = [openai |-> OpenAIMessages(probe.in.modelId, probe.in.history, probe.in.newMessage,
                                             probe.in.systemInstruction, probe.in.attachment),
                   anthropic |-> normalizeMessages(probe.in.history, probe.in.newMessage,
                                                   probe.in.attachment)]]
    /\ UNCHANGED <<models, settings, studioSettings, threads, gallery, isGenerating, calls, nActions, nEdits>>

SpecRequest == InitRequest /\ [][ApplyBuildRequest]_vars

RequestBuilt == probe.fn = "request" /\ probe.done

FinalTurn == probe.out.openai[Len(probe.out.openai)]

\* the file content as text: every base64 chunk decoded, in order
DecodedContent(att) == [k \in 1..Len(att.data) |-> DecodeChunk(att.data[k])]

\* C21: with a text-like attachment the final user turn's text is the user's
\* text, then the marker naming the file, the decoded content verbatim and the
\* end marker; with an attachment that is neither text-like nor image-like the
\* text is the user's text followed by a note naming the file and saying it
\* could not be processed.
C21_AttachmentInlined ==
    (RequestBuilt /\ probe.in.attachment.present) =>
        LET att == probe.in.attachment IN
        /\ FinalTurn.role = "user"
        /\ isTextBasedMime(att.mimeType) =>
              FinalTurn.text = probe.in.newMessage
                  \o <<"\n\n--- Attached File: ">> \o att.name \o <<" ---\n">>
                  \o DecodedContent(att) \o <<"\n--- End File ---">>
        /\ (~isTextBasedMime(att.mimeType) /\ ~isImageMime(att.mimeType)) =>
              /\ IsPrefix(probe.in.newMessage, FinalTurn.text)
              /\ Len(FinalTurn.text) > Len(probe.in.newMessage)
              /\ FinalTurn.text[Len(FinalTurn.text)] = ") could not be processed - unsupported format]"
              /\ \E k \in 1..Len(FinalTurn.text) : FinalTurn.text[k] = att.name[1]

\* C21 witness: a JSON file of two chunks was inlined after the user's text.
C21_Witness ==
    /\ RequestBuilt
    /\ probe.in.attachment.present
    /\ probe.in.attachment.mimeType = "application/json"
    /\ probe.in.attachment.data = <<"d", "i">>
    /\ probe.in.newMessage = <<"q">>
    /\ Len(FinalTurn.text) = 7

\* C22 (as claimed): a present system instruction gives exactly one leading
\* system turn and as many turns as the history plus two; for an o1 model no
\* system turn, as many turns as the history plus one, and the first user
\* turn's text carries the labelled instruction together with that turn's own
\* text.
C22_SystemInstructionFolded ==
    (RequestBuilt /\ probe.in.systemInstruction # <<>>) =>
        LET msgs == probe.out.openai
            systemTurns == {k \in 1..Len(msgs) : msgs[k].role = "system"}
        IN IF StartsWithO1(probe.in.modelId)
           THEN /\ systemTurns = {}
                /\ Len(msgs) = Len(probe.in.history) + 1
                /\ \E k \in 1..Len(msgs) :
                      /\ msgs[k].role = "user"
                      /\ \A j \in 1..(k - 1) : msgs[j].role # "user"
                      /\ IsPrefix(<<"System Instruction: ">> \o probe.in.systemInstruction, msgs[k].text)
           ELSE /\ systemTurns = {1}
                /\ msgs[1].text = probe.in.systemInstruction
                /\ Len(msgs) = Len(probe.in.history) + 2

\* ================================================= detectMimeType
\* A filename is a sequence of tokens: name pieces and "." separators.
\* toLowerCase on the extension pieces of the universe
ToLowerCase(piece) ==
    CASE piece = "MD" -> "md"
      [] piece = "PNG" -> "png"
      [] OTHER -> piece

\* piece.length, and whether the piece matches [a-z]+
PieceLength(piece) ==
    CASE piece = "" -> 0
      [] piece \in {"md", "MD", "gz", "7z"} -> 2
      [] piece \in {"xyz", "png", "PNG", "svg", "pdf", "tar"} -> 3
      [] piece = "json" -> 4
      [] piece = "blob" -> 4
      [] piece = "backup" -> 6
      [] OTHER -> 7

IsLowerLetters(piece) == piece \in {"md", "gz", "xyz", "png", "svg", "pdf", "tar", "json", "blob", "backup"}

\* EXTENSION_TO_MIME, the entries for the extensions of the universe; "" is undefined
EXTENSION_TO_MIME(ext) ==
    CASE ext = "md" -> "text/markdown"
      [] ext = "json" -> "application/json"
      [] ext = "svg" -> "image/svg+xml"
      [] ext = "png" -> "image/png"
      [] ext = "pdf" -> "application/pdf"
      [] OTHER -> ""

\* filename.lastIndexOf("."), 0 for -1
LastDotIndex(filename) ==
    IF \E k \in 1..Len(filename) : filename[k] = "."
    THEN CHOOSE k \in 1..Len(filename) :
            filename[k] = "." /\ \A j \in (k + 1)..Len(filename) : filename[j] # "."
    ELSE 0

detectMimeType(filename, browserMimeType) ==
    IF browserMimeType # "" /\ browserMimeType # "application/octet-stream" THEN browserMimeType
    ELSE LET dot == LastDotIndex(filename)
             \* filename.slice(lastDotIndex).toLowerCase() without its dot
             piece == IF dot > 0 /\ dot < Len(filename) THEN ToLowerCase(filename[dot + 1]) ELSE ""
         IN IF dot = 0 THEN "text/plain"
            ELSE IF EXTENSION_TO_MIME(piece) # "" THEN EXTENSION_TO_MIME(piece)
            ELSE IF PieceLength(piece) + 1 <= 5 /\ IsLowerLetters(piece) THEN "text/plain"
            ELSE "application/octet-stream"

Filenames ==
    { <<"README">>, <<"README", ".", "md">>, <<"README", ".", "MD">>, <<"shot", ".", "PNG">>,
      <<"logo", ".", "svg">>, <<"data", ".", "json">>, <<"doc", ".", "pdf">>,
      <<"mystery", ".", "xyz">>, <<"a", ".", "tar", ".", "gz">>, <<"a", ".", "md", ".", "backup">>,
      <<"a", ".", "7z">>, <<"a", ".", "blob">>, <<"a", ".">>, <<".", "md">> }

BrowserHints == {"", "application/octet-stream", "text/plain", "image/png", "application/pdf"}

InitDetect ==
    /\ models = INITIAL_MODELS
    /\ settings = INITIAL_SETTINGS
    /\ studioSettings = [imageCount |-> 1, videoMode |-> FALSE]
    /\ threads = SyncThreads(<<>>, INITIAL_MODELS)
    /\ gallery = <<>>
    /\ isGenerating = [m \in {} |-> FALSE]
    /\ calls = <<>>
    /\ nActions = 0
    /\ nEdits = 0
    /\ \E f \in Filenames, h \in BrowserHints :
          probe = [fn |-> "detectMimeType", done |-> FALSE, in |-> [filename |-> f, hint |-> h], out |-> ""]

ApplyDetectMimeType ==
    /\ probe.fn = "detectMimeType"
    /\ ~probe.done
    /\ probe' = [probe EXCEPT !.done = TRUE, !.out = detectMimeType(probe.in.filename, probe.in.hint)]
    /\ UNCHANGED <<models, settings, studioSettings, threads, gallery, isGenerating, calls, nActions, nEdits>>

SpecDetect == InitDetect /\ [][ApplyDetectMimeType]_vars

\* C23 (as claimed): a hint that is neither empty nor generic is returned;
\* otherwise the table entry for the lower-cased last extension; otherwise
\* text/plain or application/octet-stream, and application/octet-stream for
\* mystery.xyz.
C23_DetectMimeType ==
    (probe.fn = "detectMimeType" /\ probe.done) =>
        LET f == probe.in.filename
            h == probe.in.hint
            generic == h = "" \/ h = "application/octet-stream"
            ext == IF LastDotIndex(f) > 0 /\ LastDotIndex(f) < Len(f)
                   THEN ToLowerCase(f[LastDotIndex(f) + 1]) ELSE ""
        IN /\ ~generic => probe.out = h
           /\ (generic /\ EXTENSION_TO_MIME(ext) # "") => probe.out = EXTENSION_TO_MIME(ext)
           /\ (generic /\ EXTENSION_TO_MIME(ext) = "") => probe.out \in {"text/plain", "application/octet-stream"}
           /\ (generic /\ f = <<"mystery", ".", "xyz">>) => probe.out = "application/octet-stream"

\* ============================ image adapters: the vendor's answer handled
\* A vendor answer: HTTP status class, the error body's kind, the number of
\* images in a 2xx body and Google's promptFeedback.blockReason ("" if none).
\* Body "moderation": JSON whose error code is moderation_blocked.
VendorImageAnswer(ok, body, n, blockReason) ==
    [ok |-> ok, body |-> body, n |-> n, blockReason |-> blockReason]

ImageErrorBodies == {"moderation", "json_msg", "raw"}

ImageAnswers ==
    { VendorImageAnswer(FALSE, b, 0, "") : b \in ImageErrorBodies }
    \cup { VendorImageAnswer(TRUE, "", n, r) : n \in 0..MaxResults, r \in {"", "SAFETY"} }

\* errText.includes("moderation_blocked")
IncludesModerationBlocked(body) == body = "moderation"

OpenAIImageAnswer(hasReference, a) ==
    IF hasReference
    THEN IF ~a.ok THEN ImageThrown(<<"OpenAI Edit Error ", "status", ": ", a.body>>)
         ELSE ImageReturned(Repeat("data", a.n))
    ELSE IF ~a.ok
         THEN IF IncludesModerationBlocked(a.body)
              THEN ImageThrown(<<"OpenAI Safety System blocked this prompt. Please check your text.">>)
              ELSE ImageThrown(<<"OpenAI Generation Error ", "status", ": ", a.body>>)
    ELSE ImageReturned(Repeat("data", a.n))

\* the throw inside the try of the error branch is caught by its own catch
GoogleImageAnswer(a) ==
    IF ~a.ok THEN ImageThrown(<<"Google Error ", "status", ": ", a.body>>)
    ELSE IF a.n = 0
         THEN IF a.blockReason # "" THEN ImageThrown(<<"Google Blocked: ", a.blockReason>>)
              ELSE ImageThrown(<<"No image data found in Google response">>)
    ELSE ImageReturned(Repeat("data", a.n))

HandleImageAnswer(provider, hasReference, a) ==
    IF provider = "google" THEN GoogleImageAnswer(a) ELSE OpenAIImageAnswer(hasReference, a)

InitImageAnswer ==
    /\ models = INITIAL_MODELS
    /\ settings = INITIAL_SETTINGS
    /\ studioSettings = [imageCount |-> 1, videoMode |-> FALSE]
    /\ threads = SyncThreads(<<>>, INITIAL_MODELS)
    /\ gallery = <<>>
    /\ isGenerating = [m \in {} |-> FALSE]
    /\ calls = <<>>
    /\ nActions = 0
    /\ nEdits = 0
    /\ \E p \in {"openai", "google"}, refs \in 0..2, a \in ImageAnswers :
          probe = [fn |-> "imageAnswer", done |-> FALSE,
                   in |-> [provider |-> p, references |-> refs, answer |-> a],
                   out |-> ImageReturned(<<>>)]

ApplyHandleImageAnswer ==
    /\ probe.fn = "imageAnswer"
    /\ ~probe.done
    /\ probe' = [probe EXCEPT
          !.done = TRUE,
          !.out = HandleImageAnswer(probe.in.provider, probe.in.references > 0, probe.in.answer)]
    /\ UNCHANGED <<models, settings, studioSettings, threads, gallery, isGenerating, calls, nActions, nEdits>>

SpecImageAnswer == InitImageAnswer /\ [][ApplyHandleImageAnswer]_vars

\* the vendor refused for safety: OpenAI's moderation_blocked error, or a
\* Google 2xx answer without images that names a block reason
IsModerationRejection(provider, a) ==
    IF provider = "google" THEN a.ok /\ a.n = 0 /\ a.blockReason # ""
    ELSE ~a.ok /\ a.body = "moderation"

\* the generic error: a fixed prefix, the HTTP status and the raw body
IsGenericHttpError(message) ==
    /\ Len(message) = 4
    /\ message[1] \in {"OpenAI Generation Error ", "OpenAI Edit Error ", "Google Error "}

\* C24 (as claimed): whenever the vendor refuses an image request for
\* safety, with or without a reference image, the adapter throws an error
\* that is not the generic status-and-body error nor the no-image-data error.
C24_ModerationDistinct ==
    (probe.fn = "imageAnswer" /\ probe.done
       /\ IsModerationRejection(probe.in.provider, probe.in.answer)) =>
        /\ probe.out.threw
        /\ ~IsGenericHttpError(probe.out.message)
        /\ probe.out.message # <<"No image data found in Google response">>

\* ------------------------------- Anthropic normalization keeps the content
\* the blocks a message stands for: its attachment block, then its text block
ContentOf(msg) ==
    AnthropicAttachmentBlocks(msg.attachment)
        \o (IF msg.text # Undefined /\ Trim(msg.text) # <<>> THEN <<TextBlock(msg.text)>> ELSE <<>>)

RECURSIVE ConcatContent(_)
ConcatContent(msgs) == IF msgs = <<>> THEN <<>> ELSE ContentOf(Head(msgs)) \o ConcatContent(Tail(msgs))

RECURSIVE ConcatTurns(_)
ConcatTurns(turns) == IF turns = <<>> THEN <<>> ELSE Head(turns).content \o ConcatTurns(Tail(turns))

\* the messages left once the leading run of model messages (those with
\* content merge into one assistant turn) is taken away
RECURSIVE AfterLeadingModel(_)
AfterLeadingModel(msgs) ==
    IF msgs = <<>> THEN <<>>
    ELSE IF Head(msgs).role = "model" \/ ContentOf(Head(msgs)) = <<>> THEN AfterLeadingModel(Tail(msgs))
    ELSE msgs

\* C25: the blocks of the output turns, concatenated, are the blocks of the
\* input messages in order (attachment block before text block, history
\* before the new message), without the blocks of the leading assistant turn
\* when the merged sequence starts with one; empty messages add nothing.
C25_ContentPreserved ==
    (probe.fn = "normalizeMessages" /\ probe.done) =>
        ConcatTurns(probe.out)
            = ConcatContent(AfterLeadingModel(
                  Append(probe.in.history, CurrentMessage(probe.in.newMessage, probe.in.attachment))))

\* C25 witness: a leading model message was dropped, and a user message with
\* an image and text was merged with the new message and its file into one
\* user turn of four blocks, in order.
C25_Witness ==
    /\ probe.fn = "normalizeMessages" /\ probe.done
    /\ Len(probe.in.history) = 2
    /\ probe.in.history[1].role = "model" /\ ContentOf(probe.in.history[1]) # <<>>
    /\ probe.in.history[2].role = "user" /\ Len(ContentOf(probe.in.history[2])) = 2
    /\ Len(probe.out) = 1
    /\ Len(probe.out[1].content) = 4
    /\ probe.out[1].content[1].type = "image"
    /\ probe.out[1].content[4].text = <<"q">>

\* ================================== GoogleProvider: the turns it builds
InlineDataPart(att) == [kind |-> "inlineData", mimeType |-> att.mimeType, data |-> att.data, text |-> <<>>]
TextPart(text) == [kind |-> "text", mimeType |-> "", data |-> <<>>, text |-> text]

\* the parts of one message; placeholder is "..." in the history, " " for the new message
GoogleParts(text, att, placeholder) ==
    LET parts == (IF att.present /\ att.mimeType # "" THEN <<InlineDataPart(att)>> ELSE <<>>)
                     \o (IF HasText(text) THEN <<TextPart(text)>> ELSE <<>>)
    IN IF parts = <<>> THEN <<TextPart(<<placeholder>>)>> ELSE parts

GoogleHistory(currentHistory) ==
    [k \in 1..Len(currentHistory) |->
        [role |-> IF currentHistory[k].role = "user" THEN "user" ELSE "model",
         parts |-> GoogleParts(currentHistory[k].text, currentHistory[k].attachment, "...")]]

\* what the chat session sends: the history turns, then the new message as a user turn
GoogleContents(currentHistory, newMessage, att) ==
    Append(GoogleHistory(currentHistory), [role |-> "user", parts |-> GoogleParts(newMessage, att, " ")])

\* the turns of an issued Gemini request
GoogleSent(c) == GoogleContents(c.history, c.newMessage, c.attachment)

IsGoogleRequest(c) == c.kind = "chat" /\ c.adapter = "google" /\ c.stage = "fetch"

\* C26 (as claimed): the turns of every Gemini request the orchestrator
\* issues alternate between user and model, and every turn, the trailing
\* new-message turn included, has at least one part, an inline attachment
\* part only in first place.
C26_GoogleTurnsAlternate ==
    \A i \in 1..Len(calls) :
        IsGoogleRequest(calls[i]) =>
            LET turns == GoogleSent(calls[i]) IN
            /\ \A k \in 1..(Len(turns) - 1) : turns[k].role # turns[k + 1].role
            /\ \A k \in 1..Len(turns) :
                  /\ Len(turns[k].parts) >= 1
                  /\ \A j \in 2..Len(turns[k].parts) : turns[k].parts[j].kind = "text"

\* ---------------------------------------- typing flag under interleaving
\* C27 (as claimed): in every reachable state a thread that is not typing has
\* no chat call in flight for its model.
C27_TypingTracksInFlight ==
    \A m \in DOMAIN threads : ~threads[m].isTyping => ChatInFlight(m) = 0

\* ---------------------------------------- the error of the latest request
UserCount(msgs) == Cardinality({k \in 1..Len(msgs) : msgs[k].role = "user"})

\* The chat call c is the only one in flight for its model, it is not the one
\* dispatched last (the thread holds a user message newer than c's own), and
\* the thread has no error: every request dispatched after c has settled, and
\* the last of them, whose dispatch cleared the error, did not fail.
LatestSucceededBefore(c) ==
    /\ c.kind = "chat"
    /\ c.model \in DOMAIN threads
    /\ ChatInFlight(c.model) = 1
    /\ threads[c.model].error = NoError
    /\ UserCount(threads[c.model].messages) > UserCount(c.history) + 1

\* C28 (as claimed): a dispatch leaves the thread without error; and when the
\* request dispatched last for a model has succeeded, the settling of the
\* last call still in flight for that model leaves the thread without error.
C28_ErrorReflectsLatest ==
    [][ /\ \A m \in ModelIds :
              (ChatInFlight(m)' > ChatInFlight(m)) => threads'[m].error = NoError
        /\ \A i \in 1..Len(calls) :
              (Len(calls') < Len(calls) /\ calls' = RemoveAt(calls, i) /\ LatestSucceededBefore(calls[i]))
                  => threads'[calls[i].model].error = NoError
      ]_vars

\* ------------------------------------- the history handed to the adapter
\* C29: every chat call a step dispatches carries as history the thread's
\* messages as they were before the step; the step appends the call's new
\* message to that thread as one user message, so the history never ends
\* with it; and the new message is what the user typed or the compare prompt
\* built from the threads as they were before the step.
C29_HistoryBeforeAction ==
    [][ (Len(calls') > Len(calls)) =>
          \A k \in (Len(calls) + 1)..Len(calls') :
              LET c == calls'[k] IN
              c.kind = "chat" =>
                  /\ c.history = ThreadOf(threads, c.model).messages
                  /\ Len(threads'[c.model].messages) = Len(c.history) + 1
                  /\ IsPrefix(c.history, threads'[c.model].messages)
                  /\ threads'[c.model].messages[Len(c.history) + 1].role = "user"
                  /\ threads'[c.model].messages[Len(c.history) + 1].text = c.newMessage
                  /\ \/ c.newMessage \in {inp.text : inp \in UserInputs}
                     \/ c.newMessage = ComparePrompt(settings.comparePromptTemplate,
                                                     OtherBlocks(activeTextModels, c.model, threads))
      ]_vars

\* C29 witness: a compare prompt is in flight for a model whose thread
\* already held a question and an answer; the history is those two messages.
C29_Witness ==
    \E i \in 1..Len(calls) :
        /\ calls[i].kind = "chat"
        /\ calls[i].stage = "fetch"
        /\ Len(calls[i].history) = 2
        /\ calls[i].newMessage \notin {inp.text : inp \in UserInputs}
        /\ Len(threads[calls[i].model].messages) = 3
        /\ LastMessage(calls[i].model).text = calls[i].newMessage

\* ------------------------------------ one form per attachment, everywhere
\* the forms in which the OpenAI-compatible request carries the attachment
OpenAIForms(att) ==
    LET turn == FinalTurn IN
    (IF turn.image.present THEN {"image"} ELSE {})
    \cup (IF \E k \in 1..Len(turn.text) : turn.text[k] = "\n\n--- Attached File: " THEN {"text"} ELSE {})
    \cup (IF \E k \in 1..Len(turn.text) : turn.text[k] = "\n\n[Note: Attached file \"" THEN {"note"} ELSE {})

\* the forms in which the Anthropic request carries it: the blocks of the
\* last turn that come from the attachment
AnthropicForms(att) ==
    LET blocks == probe.out.anthropic[Len(probe.out.anthropic)].content IN
    (IF \E k \in 1..Len(blocks) : blocks[k].type = "image" THEN {"image"} ELSE {})
    \cup (IF \E k \in 1..Len(blocks) :
                blocks[k].type = "text" /\ blocks[k].text # <<>> /\ blocks[k].text[1] = "\n--- Attached File: "
          THEN {"text"} ELSE {})
    \cup (IF \E k \in 1..Len(blocks) :
                blocks[k].type = "text" /\ blocks[k].text # <<>> /\ blocks[k].text[1] = "[Unsupported file attachment: "
          THEN {"note"} ELSE {})

\* C30 (as claimed): each adapter sends a new-message attachment in exactly
\* one form, image for image-like types, inlined text for text-like types
\* and a note otherwise, and both adapters choose the same form.
C30_OneFormBothAdapters ==
    (RequestBuilt /\ probe.in.attachment.present) =>
        LET att == probe.in.attachment IN
        /\ Cardinality(OpenAIForms(att)) = 1
        /\ Cardinality(AnthropicForms(att)) = 1
        /\ OpenAIForms(att) = AnthropicForms(att)

====
